---- MODULE Spec2Model ----
(***************************************************************************)
(* A model of the nexa VLM front end: model resolution and session         *)
(* construction (nexa/gguf/nexa_inference_vlm.py), the output suppressor   *)
(* and the spinner (nexa/utils.py), and the interactive loop.              *)
(*                                                                         *)
(* Strings are sequences of tokens; a token is a separator ("/", ":",      *)
(* " ") or a run of other characters.  Python's None is the record None.   *)
(***************************************************************************)
EXTENDS Integers, Sequences, FiniteSets, TLC

VARIABLES
    \* ---- process ----
    proc,            \* "running" | "exited"
    exit_status,     \* status the process ended with, "-" while running
    \* ---- session construction ----
    fs,              \* the paths that exist on disk
    heap,            \* dict objects by identity: heap[id] is a dict
    sessions,        \* constructed NexaVLMInference objects, by name
    built,           \* ghost: the parameters each session was constructed with
    init_log,        \* ghost: inputs and outcome of the last __init__ call
    chat_log,        \* ghost: the sampling parameters of the last engine call
    \* ---- output suppression and the spinner ----
    sys_stdout,      \* the stream object bound to sys.stdout
    sys_stderr,      \* the stream object bound to sys.stderr
    null_closed,     \* the os.devnull file objects that have been closed
    next_file,       \* identity of the next file object open() creates
    scopes,          \* the suppress_stdout_stderr objects entered, innermost last
    fg_pc,           \* position of the foreground thread
    exc,             \* an exception is propagating in the foreground thread
    calls,           \* calls of the decorated callable made so far
    stop_spinning,   \* the threading.Event of the decorator object
    sp_pc,           \* position of the spinner thread, "none" before the first start
    sp_stream,       \* the stream object the spinner thread is about to use
    fg_write,       \* ghost: where the last write of an enclosed block went
    spin_write,     \* ghost: where the last write of the spinner thread went
    restored,        \* ghost: the streams at entry and after exit of the last scope left
    \* ---- the interactive loop ----
    run_pc,          \* position of run(): "start" before it is called
    image_path,      \* run()'s local image_path
    user_input,      \* run()'s local user_input
    chunk_no,        \* fragments of the current stream consumed so far
    turn,            \* ghost: what has happened in the current turn
    last_key,        \* ghost: the keyboard input given at the last prompt
    engine_msg,      \* ghost: content of the user message of the last engine call, <<>> before
    direct_chat      \* ghost: arguments and outcome of the last _chat call made outside run()

procVars == <<proc, exit_status>>
initVars == <<fs, heap, sessions, built, init_log, chat_log>>
loadVars == <<sys_stdout, sys_stderr, null_closed, next_file, scopes, fg_pc, exc, calls,
              stop_spinning, sp_pc, sp_stream, fg_write, spin_write, restored>>
runVars == <<run_pc, image_path, user_input, chunk_no, turn, last_key,
             engine_msg, direct_chat>>
vars == <<procVars, initVars, loadVars, runVars>>

None == [kind |-> "None"]

\* None where a string is expected: a one-token string no input can spell
NoString == <<"(None)">>

(***************************************************************************)
(* Strings                                                                 *)
(***************************************************************************)
MaxRefLen == 3

RECURSIVE SplitOn(_, _)
\* str.split(sep)
SplitOn(s, sep) ==
    IF \E i \in 1..Len(s) : s[i] = sep
    THEN LET i == CHOOSE k \in 1..Len(s) :
                      s[k] = sep /\ \A j \in 1..(k - 1) : s[j] # sep
         IN  <<SubSeq(s, 1, i - 1)>> \o SplitOn(SubSeq(s, i + 1, Len(s)), sep)
    ELSE <<s>>

StringsUpTo(alphabet, n) == UNION {[1..k -> alphabet] : k \in 0..n}

(***************************************************************************)
(* pathlib.Path (posix flavour)                                            *)
(***************************************************************************)
NonEmpty(piece) == piece # <<>>

LeadingSlashes(s) ==
    IF \E i \in 1..Len(s) : s[i] # "/"
    THEN (CHOOSE i \in 1..Len(s) : s[i] # "/" /\ \A j \in 1..(i - 1) : s[j] = "/") - 1
    ELSE Len(s)

PathRoot(s) ==
    LET n == LeadingSlashes(s)
    IN  IF n = 0 THEN "" ELSE IF n = 2 THEN "//" ELSE "/"

\* Path(s): the root and the non-empty segments between slashes
Path(s) == [kind |-> "Path", root |-> PathRoot(s),
            parts |-> SelectSeq(SplitOn(s, "/"), NonEmpty)]

\* Path.name: the final segment, "" when there is none
PathName(p) == IF p.parts = <<>> THEN <<>> ELSE p.parts[Len(p.parts)]

\* Path.parent: the path without its final segment; a bare root or "." is its own parent
PathParent(p) ==
    IF p.parts = <<>> THEN p
    ELSE [p EXCEPT !.parts = SubSeq(p.parts, 1, Len(p.parts) - 1)]

\* p / name, for a name that holds no slash
PathJoin(p, name) == [p EXCEPT !.parts = Append(p.parts, name)]

\* Path.exists(): the root and the working directory always exist
PathExists(p, disk) == p.parts = <<>> \/ p \in disk

(***************************************************************************)
(* Tables                                                                  *)
(***************************************************************************)
\* keys of NEXA_PROJECTOR_HANDLER_MAP; the startup assertion makes them the
\* keys of the model and projector tables too
HubKeys == {<<"nanollava">>, <<"llava-phi3">>, <<"llava-llama3">>,
            <<"llava1.6-mistral">>, <<"llava1.6-vicuna">>}

NEXA_RUN_MODEL_MAP_VLM == [k \in HubKeys |-> k \o <<":", "model-fp16">>]

NEXA_RUN_PROJECTOR_MAP == [k \in HubKeys |-> k \o <<":", "projector-fp16">>]

\* the local cache path a successful pull returns
PulledPath(artifact) == Path(<<"/", "cache", "/">> \o artifact)

\* pull_model(artifact): the cached path, or None when the pull fails
pull_model(artifact, ok) == IF ok THEN PulledPath(artifact) ELSE None

ParamKeys == {"temperature", "max_new_tokens", "top_k", "top_p"}

DocumentedDefaults ==
    [temperature |-> "0.8", max_new_tokens |-> "2048", top_k |-> "50", top_p |-> "1.0"]

\* identity of the module-level dict DEFAULT_TEXT_GEN_PARAMS
DEFAULT_TEXT_GEN_PARAMS == "dict0"

(***************************************************************************)
(* Streams                                                                 *)
(***************************************************************************)
MaxDepth == 2
MaxScopes == 2
MaxCalls == 2

\* the real terminal streams the process starts with
TtyOut == [kind |-> "tty", name |-> "stdout"]

TtyErr == [kind |-> "tty", name |-> "stderr"]

\* the file object open(os.devnull, "w") returns: a new object each time
DevNull(id) == [kind |-> "devnull", id |-> id]

IsClosed(stream) == stream.kind = "devnull" /\ stream.id \in null_closed

(***************************************************************************)
(* suppress_stdout_stderr                                                  *)
(***************************************************************************)
\* an __exit__ that puts back the interpreter's original stream, not the saved one
RestoreTargetOriginal(scope, which) == IF which = "stdout" THEN TtyOut ELSE TtyErr

\* lines 85-86: the stream __exit__ assigns to sys.stdout / sys.stderr
RestoreTarget(scope, which) ==
    IF which = "stdout" THEN scope.old_stdout ELSE scope.old_stderr

\* lines 73-75: open the discard file and save the current streams
SuppressEnterOpen ==
    /\ fg_pc = "body"
    /\ Len(scopes) < MaxDepth
    /\ next_file <= MaxScopes
    /\ scopes' = Append(scopes,
          [null_file |-> DevNull(next_file),
           old_stdout |-> sys_stdout, old_stderr |-> sys_stderr,
           stdout_redirect |-> None, stderr_redirect |-> None,
           entry_out |-> sys_stdout, entry_err |-> sys_stderr])
    /\ next_file' = next_file + 1
    /\ fg_pc' = "enter_redirect"
    /\ UNCHANGED <<sys_stdout, sys_stderr, null_closed, exc, calls, stop_spinning,
                   sp_pc, sp_stream, fg_write, spin_write, restored>>

\* lines 76-79: redirect_stdout / redirect_stderr remember the current stream
\* and bind the discard file
SuppressEnterRedirect ==
    /\ fg_pc = "enter_redirect"
    /\ LET n == Len(scopes) IN
       /\ scopes' = [scopes EXCEPT ![n].stdout_redirect = sys_stdout,
                                   ![n].stderr_redirect = sys_stderr]
       /\ sys_stdout' = scopes[n].null_file
       /\ sys_stderr' = scopes[n].null_file
    /\ fg_pc' = "body"
    /\ UNCHANGED <<null_closed, next_file, exc, calls, stop_spinning,
                   sp_pc, sp_stream, fg_write, spin_write, restored>>

\* the enclosed block writes to sys.stdout or sys.stderr
BlockWrite(which) ==
    /\ fg_pc = "body"
    /\ LET dest == IF which = "stdout" THEN sys_stdout ELSE sys_stderr IN
       fg_write' = [kind |-> "write", which |-> which, dest |-> dest, depth |-> Len(scopes)]
    /\ UNCHANGED <<sys_stdout, sys_stderr, null_closed, next_file, scopes, fg_pc, exc,
                   calls, stop_spinning, sp_pc, sp_stream, spin_write, restored>>

\* the innermost block ends, normally or by raising: the innermost scope's
\* __exit__ runs, or the spinner's when no suppression scope is open
BlockEnd(raises) ==
    /\ fg_pc = "body"
    /\ exc' = raises
    /\ fg_pc' = IF scopes = <<>> THEN "spin_exit" ELSE "exit_redirect"
    /\ UNCHANGED <<sys_stdout, sys_stderr, null_closed, next_file, scopes,
                   calls, stop_spinning, sp_pc, sp_stream, fg_write, spin_write, restored>>

\* lines 83-84: the two redirects put back the streams they remembered
SuppressExitRedirect ==
    /\ fg_pc = "exit_redirect"
    /\ sys_stdout' = scopes[Len(scopes)].stdout_redirect
    /\ sys_stderr' = scopes[Len(scopes)].stderr_redirect
    /\ fg_pc' = "exit_restore"
    /\ UNCHANGED <<null_closed, next_file, scopes, exc, calls, stop_spinning,
                   sp_pc, sp_stream, fg_write, spin_write, restored>>

\* lines 85-86: the saved streams are assigned back
SuppressExitRestore ==
    /\ fg_pc = "exit_restore"
    /\ sys_stdout' = RestoreTarget(scopes[Len(scopes)], "stdout")
    /\ sys_stderr' = RestoreTarget(scopes[Len(scopes)], "stderr")
    /\ fg_pc' = "exit_close"
    /\ UNCHANGED <<null_closed, next_file, scopes, exc, calls, stop_spinning,
                   sp_pc, sp_stream, fg_write, spin_write, restored>>

\* line 87: the discard file is closed; __exit__ returns None, so an exception
\* goes on to the enclosing scope
SuppressExitClose ==
    /\ fg_pc = "exit_close"
    /\ LET n == Len(scopes) IN
       /\ null_closed' = null_closed \cup {scopes[n].null_file.id}
       /\ restored' = [kind |-> "exit", raised |-> exc,
                       entry_out |-> scopes[n].entry_out, entry_err |-> scopes[n].entry_err,
                       out |-> sys_stdout, err |-> sys_stderr]
       /\ scopes' = SubSeq(scopes, 1, n - 1)
       /\ fg_pc' = IF ~exc THEN "body"
                   ELSE IF n = 1 THEN "spin_exit" ELSE "exit_redirect"
    /\ UNCHANGED <<sys_stdout, sys_stderr, next_file, exc, calls, stop_spinning,
                   sp_pc, sp_stream, fg_write, spin_write>>

(***************************************************************************)
(* SpinningCursorAnimation                                                 *)
(***************************************************************************)
\* a loop that never looks at the event
SpinLoopForever(flag) == TRUE

\* lines 151 and 155: the loop goes on while the event is not set
SpinLoopContinues(flag) == ~flag

SpinnerAlive == sp_pc \notin {"none", "done"}

\* wrapper and __enter__ (lines 158-161, 171-173): the decorated callable is
\* called; the thread is created and started, then the callable's body runs
WrapperCall ==
    /\ fg_pc \in {"idle", "returned", "raised"}
    /\ calls < MaxCalls
    /\ calls' = calls + 1
    /\ exc' = FALSE
    /\ sp_pc' = "test"
    /\ sp_stream' = None
    /\ fg_pc' = "body"
    /\ UNCHANGED <<sys_stdout, sys_stderr, null_closed, next_file, scopes,
                   stop_spinning, fg_write, spin_write, restored>>

\* line 164
SpinExitSet ==
    /\ fg_pc = "spin_exit"
    /\ stop_spinning' = TRUE
    /\ fg_pc' = "join"
    /\ UNCHANGED <<sys_stdout, sys_stderr, null_closed, next_file, scopes, exc, calls,
                   sp_pc, sp_stream, fg_write, spin_write, restored>>

\* line 165: join returns once the thread has ended
SpinExitJoin ==
    /\ fg_pc = "join"
    /\ ~SpinnerAlive
    /\ fg_pc' = "exit_write"
    /\ UNCHANGED <<sys_stdout, sys_stderr, null_closed, next_file, scopes, exc, calls,
                   stop_spinning, sp_pc, sp_stream, fg_write, spin_write, restored>>

\* lines 166-167, then the wrapper returns the result or lets the exception through
SpinExitWrite ==
    /\ fg_pc = "exit_write"
    /\ fg_pc' = IF exc THEN "raised" ELSE "returned"
    /\ UNCHANGED <<sys_stdout, sys_stderr, null_closed, next_file, scopes, exc, calls,
                   stop_spinning, sp_pc, sp_stream, fg_write, spin_write, restored>>

\* line 151: while not self.stop_spinning.is_set()
SpinTest ==
    /\ sp_pc = "test"
    /\ sp_pc' = IF SpinLoopContinues(stop_spinning) THEN "load_write" ELSE "done"
    /\ UNCHANGED <<sys_stdout, sys_stderr, null_closed, next_file, scopes, fg_pc, exc,
                   calls, stop_spinning, sp_stream, fg_write, spin_write, restored>>

\* lines 152, 153: sys.stdout is looked up when the statement starts
SpinLoad ==
    /\ sp_pc \in {"load_write", "load_flush"}
    /\ sp_stream' = sys_stdout
    /\ sp_pc' = IF sp_pc = "load_write" THEN "write" ELSE "flush"
    /\ UNCHANGED <<sys_stdout, sys_stderr, null_closed, next_file, scopes, fg_pc, exc,
                   calls, stop_spinning, fg_write, spin_write, restored>>

\* line 152: the write goes to the object looked up; on a closed file it raises
\* ValueError, which ends the thread
SpinWrite ==
    /\ sp_pc = "write"
    /\ spin_write' = [kind |-> "write", dest |-> sp_stream, closed |-> IsClosed(sp_stream)]
    /\ sp_pc' = IF IsClosed(sp_stream) THEN "done" ELSE "load_flush"
    /\ sp_stream' = None
    /\ UNCHANGED <<sys_stdout, sys_stderr, null_closed, next_file, scopes, fg_pc, exc,
                   calls, stop_spinning, fg_write, restored>>

\* line 153
SpinFlush ==
    /\ sp_pc = "flush"
    /\ sp_pc' = IF IsClosed(sp_stream) THEN "done" ELSE "sleep"
    /\ sp_stream' = None
    /\ UNCHANGED <<sys_stdout, sys_stderr, null_closed, next_file, scopes, fg_pc, exc,
                   calls, stop_spinning, fg_write, spin_write, restored>>

\* lines 154-156
SpinSleep ==
    /\ sp_pc = "sleep"
    /\ sp_pc' = IF SpinLoopContinues(stop_spinning) THEN "test" ELSE "done"
    /\ UNCHANGED <<sys_stdout, sys_stderr, null_closed, next_file, scopes, fg_pc, exc,
                   calls, stop_spinning, sp_stream, fg_write, spin_write, restored>>

SpinnerStep == SpinTest \/ SpinLoad \/ SpinWrite \/ SpinFlush \/ SpinSleep

(***************************************************************************)
(* nexa_prompt                                                             *)
(***************************************************************************)
MaxInputLen == 2
MaxChunks == 2

InputTokens == {" ", "exit", "Exit", "p"}

\* what the user may type at a prompt
Inputs == StringsUpTo(InputTokens, MaxInputLen)

\* the user's answer to a prompt: a line, Ctrl-C or Ctrl-D
Keys == {[kind |-> k, raw |-> <<>>] : k \in {"ctrl_c", "ctrl_d"}}
        \cup {[kind |-> "typed", raw |-> r] : r \in Inputs}

\* the table of exit commands, lower case
EXIT_COMMANDS == {<<"exit">>}

ImagePlaceholder == <<"Image Path (leave empty if no image)">>

TextPlaceholder == <<"Send a message ...">>

RECURSIVE Strip(_)
\* str.strip()
Strip(str) ==
    IF str # <<>> /\ Head(str) = " " THEN Strip(Tail(str))
    ELSE IF str # <<>> /\ str[Len(str)] = " " THEN Strip(SubSeq(str, 1, Len(str) - 1))
    ELSE str

LowerToken(t) == IF t = "Exit" THEN "exit" ELSE t

\* str.lower()
Lower(str) == [i \in 1..Len(str) |-> LowerToken(str[i])]

\* a prompt that compares the input with the exit commands as typed
NexaPromptCaseSensitive(placeholder, key) ==
    IF key.kind # "typed" THEN [exit |-> FALSE, value |-> NoString]
    ELSE LET stripped == Strip(key.raw)
             text == IF stripped = placeholder THEN <<>> ELSE stripped
         IN  [exit |-> text \in EXIT_COMMANDS, value |-> text]

\* lines 102-121: the value nexa_prompt returns, or exit(0); Ctrl-C and Ctrl-D
\* are caught inside, a reminder is printed and None is returned
NexaPrompt(placeholder, key) ==
    IF key.kind # "typed" THEN [exit |-> FALSE, value |-> NoString]
    ELSE LET stripped == Strip(key.raw)
             text == IF stripped = placeholder THEN <<>> ELSE stripped
         IN  [exit |-> Lower(text) \in EXIT_COMMANDS, value |-> text]

(***************************************************************************)
(* NexaVLMInference._chat and run                                          *)
(***************************************************************************)
\* Python truthiness of an optional string
Truthy(x) == x # NoString /\ x # <<>>

\* os.path.exists
OsPathExists(str, disk) == str # <<>> /\ PathExists(Path(str), disk)

\* image_to_base64_data_uri (lines 38-43)
image_to_base64_data_uri(file_path, disk) ==
    IF Truthy(file_path) /\ OsPathExists(file_path, disk)
    THEN [kind |-> "data_uri", of |-> file_path]
    ELSE None

TextPart(text) == [type |-> "text", text |-> text]

ImagePart(uri) == [type |-> "image_url", url |-> uri]

\* lines 196-222: _chat makes no check of its own; it builds the user content and
\* calls the engine
ChatRequest(text, image, disk) ==
    LET data_uri == IF Truthy(image) THEN image_to_base64_data_uri(image, disk) ELSE None
        content == IF data_uri # None THEN <<ImagePart(data_uri), TextPart(text)>>
                   ELSE <<TextPart(text)>>
    IN  [raised |-> "none", engine_called |-> TRUE, content |-> content]

\* an emptiness check that only recognises None
TurnIsEmptyNoneOnly(text, image) == text = NoString /\ image = NoString

\* line 178: not user_input and not image_path
TurnIsEmpty(text, image) == ~Truthy(text) /\ ~Truthy(image)

\* a loop that catches the interrupt only
RunCatchesInterruptOnly(exception) ==
    IF exception = "KeyboardInterrupt" THEN "pass" ELSE "propagate"

\* lines 190-193: what run()'s try statement does with an exception
RunCatches(exception) ==
    CASE exception = "KeyboardInterrupt" -> "pass"
      [] exception = "Exception" -> "log"
      [] OTHER -> "propagate"

FreshTurn ==
    [interrupted |-> FALSE, answered |-> FALSE, rejected |-> FALSE,
     engine_called |-> FALSE, called_after_interrupt |-> FALSE,
     gen_error |-> FALSE, error_logged |-> FALSE, exit_cause |-> "-"]

\* an exception raised inside the try block of run(), with the turn's record t
Raise(exception, t) ==
    LET does == RunCatches(exception) IN
    IF does = "propagate"
    THEN /\ proc' = "exited"
         /\ exit_status' = IF exception = "SystemExit" THEN "0" ELSE "1"
         /\ run_pc' = "dead"
         /\ turn' = [t EXCEPT !.exit_cause = exception]
    ELSE /\ run_pc' = "turn_end"
         /\ turn' = [t EXCEPT !.error_logged = (does = "log")]
         /\ UNCHANGED procVars

\* run() is called, as the command line does right after construction
RunStart ==
    /\ proc = "running"
    /\ run_pc = "start"
    /\ direct_chat = None
    /\ run_pc' = "image_prompt"
    /\ UNCHANGED <<procVars, image_path, user_input, chunk_no, turn,
                   last_key, engine_msg, direct_chat>>

\* _chat called by another caller than run()
DirectChat(text, image) ==
    /\ proc = "running"
    /\ run_pc = "start"
    /\ direct_chat = None
    /\ direct_chat' = [text |-> text, image |-> image] @@ ChatRequest(text, image, fs)
    /\ UNCHANGED <<procVars, run_pc, image_path, user_input, chunk_no, turn,
                   last_key, engine_msg>>

\* that caller is done with the stream _chat returned
DirectChatDone ==
    /\ proc = "running"
    /\ run_pc = "start"
    /\ direct_chat # None
    /\ direct_chat' = None
    /\ UNCHANGED <<procVars, run_pc, image_path, user_input, chunk_no, turn,
                   last_key, engine_msg>>

\* lines 167-174: a new turn starts with the image prompt
PromptImage(key) ==
    /\ proc = "running"
    /\ run_pc = "image_prompt"
    /\ last_key' = [at |-> "image"] @@ key
    /\ chunk_no' = 0
    /\ engine_msg' = <<>>
    /\ LET r == NexaPrompt(ImagePlaceholder, key)
           t == [FreshTurn EXCEPT !.interrupted = (key.kind = "ctrl_c")]
       IN  IF r.exit
           THEN Raise("SystemExit", t) /\ UNCHANGED image_path
           ELSE /\ image_path' = r.value
                /\ run_pc' = "text_prompt"
                /\ turn' = t
                /\ UNCHANGED procVars
    /\ UNCHANGED <<user_input, direct_chat>>

\* lines 176-180: the text prompt and the emptiness check
PromptText(key) ==
    /\ proc = "running"
    /\ run_pc = "text_prompt"
    /\ last_key' = [at |-> "text"] @@ key
    /\ LET r == NexaPrompt(TextPlaceholder, key)
           t == [turn EXCEPT !.interrupted = @ \/ key.kind = "ctrl_c"]
       IN  IF r.exit
           THEN Raise("SystemExit", t) /\ UNCHANGED user_input
           ELSE /\ user_input' = r.value
                /\ IF TurnIsEmpty(r.value, image_path)
                   THEN /\ run_pc' = "image_prompt"
                        /\ turn' = [t EXCEPT !.answered = TRUE, !.rejected = TRUE]
                   ELSE /\ run_pc' = "chat"
                        /\ turn' = [t EXCEPT !.answered = TRUE]
                /\ UNCHANGED procVars
    /\ UNCHANGED <<image_path, chunk_no, engine_msg, direct_chat>>

\* line 182: _chat calls the engine, which returns the stream, raises, or is
\* interrupted
Chat(outcome) ==
    /\ proc = "running"
    /\ run_pc = "chat"
    /\ engine_msg' = ChatRequest(user_input, image_path, fs).content
    /\ LET t == [turn EXCEPT !.engine_called = TRUE,
                             !.called_after_interrupt = turn.interrupted,
                             !.interrupted = @ \/ outcome = "KeyboardInterrupt",
                             !.gen_error = (outcome = "Exception")]
       IN  IF outcome = "ok"
           THEN run_pc' = "render" /\ turn' = t /\ UNCHANGED procVars
           ELSE Raise(outcome, t)
    /\ last_key' = None
    /\ UNCHANGED <<image_path, user_input, chunk_no, direct_chat>>

\* lines 183-189: the next fragment is taken from the stream and printed, the
\* stream ends, raises, or the user interrupts
Render(outcome) ==
    /\ proc = "running"
    /\ run_pc = "render"
    /\ outcome \in {"role", "content", "other"} => chunk_no < MaxChunks
    /\ chunk_no' = IF outcome \in {"role", "content", "other"} THEN chunk_no + 1 ELSE chunk_no
    /\ LET t == [turn EXCEPT !.interrupted = @ \/ outcome = "KeyboardInterrupt",
                             !.gen_error = (outcome = "Exception")]
       IN  CASE outcome \in {"role", "content", "other"} ->
                  UNCHANGED <<run_pc, turn, procVars>>
             [] outcome = "end" ->
                  run_pc' = "turn_end" /\ UNCHANGED <<turn, procVars>>
             [] OTHER -> Raise(outcome, t)
    /\ UNCHANGED <<image_path, user_input, last_key, engine_msg, direct_chat>>

\* line 194, and back to the top of the loop; the locals of the turn are dead
\* from here on (both are assigned before they are read again) and are forgotten
TurnEnd ==
    /\ proc = "running"
    /\ run_pc = "turn_end"
    /\ run_pc' = "image_prompt"
    /\ image_path' = NoString
    /\ user_input' = NoString
    /\ chunk_no' = 0
    /\ turn' = FreshTurn
    /\ engine_msg' = <<>>
    /\ UNCHANGED <<procVars, last_key, direct_chat>>

(***************************************************************************)
(* Inputs of session construction                                          *)
(***************************************************************************)
RefTokens == {"/", ":", "nanollava", "v1"}

\* the model references a caller may pass
Refs == StringsUpTo(RefTokens, MaxRefLen)

\* the files and directories that may be on disk
FSUniverse ==
    {Path(<<"v1">>),
     Path(<<"v1", "/", "model-", "v1">>), Path(<<"v1", "/", "projector-", "v1">>),
     Path(<<"model-", "nanollava">>), Path(<<"projector-", "nanollava">>)}

\* a file exists only inside an existing directory
Disks == {S \in SUBSET FSUniverse : \A p \in S : PathExists(PathParent(p), S)}

OverrideKeys == {"temperature", "top_k", "streamlit"}

KwargVals(k) ==
    CASE k = "temperature" -> {"0.2"}
      [] k = "top_k" -> {"10"}
      [] k = "streamlit" -> {"True"}

\* the keyword arguments a caller may pass: any subset of the keys, each with a value
Kwargs ==
    {kw \in UNION {[K -> {"0.2", "10", "True"}] : K \in SUBSET OverrideKeys} :
        \A k \in DOMAIN kw : kw[k] \in KwargVals(k)}

SessionIds == {"s1", "s2"}

(***************************************************************************)
(* NexaVLMInference.__init__                                               *)
(***************************************************************************)
\* dict.update(other)
DictUpdate(d, other) ==
    [k \in DOMAIN d \cup DOMAIN other |-> IF k \in DOMAIN other THEN other[k] ELSE d[k]]

\* kwargs.get("streamlit", False)
WantsStreamlit(kwargs) == "streamlit" \in DOMAIN kwargs /\ kwargs["streamlit"] = "True"

\* model_name.split(":")[-1]
TagAndExt(model_name) ==
    LET pieces == SplitOn(model_name, ":") IN pieces[Len(pieces)]

\* the local pair <parent>/model-<tag>, <parent>/projector-<tag>
LocalPair(model_path) ==
    LET local_dir == PathParent(Path(model_path))
        tag_and_ext == TagAndExt(PathName(Path(model_path)))
    IN  [downloaded_path |-> PathJoin(local_dir, <<"model-">> \o tag_and_ext),
         projector_downloaded_path |-> PathJoin(local_dir, <<"projector-">> \o tag_and_ext)]

\* a resolution that looks at the local files before the hub table
ResolveModelLocalFirst(model_path, disk, pull_ok_m, pull_ok_p) ==
    LET local == LocalPair(model_path)
        hub == [downloaded_path |->
                    pull_model(NEXA_RUN_MODEL_MAP_VLM[model_path], pull_ok_m),
                projector_downloaded_path |->
                    pull_model(NEXA_RUN_PROJECTOR_MAP[model_path], pull_ok_p)]
    IN  IF /\ PathExists(PathParent(Path(model_path)), disk)
           /\ PathExists(local.downloaded_path, disk)
           /\ PathExists(local.projector_downloaded_path, disk)
        THEN [exit |-> FALSE] @@ local
        ELSE IF model_path \in DOMAIN NEXA_RUN_MODEL_MAP_VLM
        THEN [exit |-> hub.downloaded_path = None] @@ hub
        ELSE [exit |-> TRUE] @@ local

\* lines 87-121: the paths of the model and the projector, and whether the
\* process exits with status 1
ResolveModel(model_path, disk, pull_ok_m, pull_ok_p) ==
    IF model_path \in DOMAIN NEXA_RUN_MODEL_MAP_VLM
    THEN LET d == pull_model(NEXA_RUN_MODEL_MAP_VLM[model_path], pull_ok_m)
             p == pull_model(NEXA_RUN_PROJECTOR_MAP[model_path], pull_ok_p)
         IN  [exit |-> d = None, downloaded_path |-> d, projector_downloaded_path |-> p]
    ELSE IF PathExists(PathParent(Path(model_path)), disk)
    THEN LET local == LocalPair(model_path)
         IN  [exit |-> ~(/\ PathExists(local.downloaded_path, disk)
                         /\ PathExists(local.projector_downloaded_path, disk))] @@ local
    ELSE [exit |-> TRUE, downloaded_path |-> None, projector_downloaded_path |-> None]

\* the whole constructor: the parameter table, the resolution, the load
NexaVLMInference_init(s, model_path, kwargs, pull_ok_m, pull_ok_p, load_ok) ==
    /\ proc = "running"
    /\ sessions[s] = None
    /\ LET params == DEFAULT_TEXT_GEN_PARAMS
           r == ResolveModel(model_path, fs, pull_ok_m, pull_ok_p)
           loads == ~r.exit /\ ~WantsStreamlit(kwargs)
           outcome == IF r.exit THEN "exit"
                      ELSE IF loads /\ ~load_ok THEN "raised"
                      ELSE "constructed"
       IN  /\ heap' = [heap EXCEPT ![params] = DictUpdate(@, kwargs)]
           /\ init_log' = [kind |-> "call", s |-> s, model_path |-> model_path,
                           pull_ok_m |-> pull_ok_m, pull_ok_p |-> pull_ok_p,
                           downloaded_path |-> r.downloaded_path,
                           projector_downloaded_path |-> r.projector_downloaded_path,
                           outcome |-> outcome, load_called |-> loads]
           /\ IF outcome = "constructed"
              THEN /\ sessions' = [sessions EXCEPT ![s] =
                          [kind |-> "session", model_path |-> model_path,
                           params |-> params,
                           downloaded_path |-> r.downloaded_path,
                           projector_downloaded_path |-> r.projector_downloaded_path,
                           model |-> IF loads THEN "Llama" ELSE "None"]]
                   /\ built' = [built EXCEPT ![s] =
                          [k \in ParamKeys |-> heap'[params][k]]]
                   /\ UNCHANGED procVars
              ELSE /\ proc' = "exited"
                   /\ exit_status' = "1"
                   /\ UNCHANGED <<sessions, built>>
    /\ UNCHANGED <<fs, chat_log>>

(***************************************************************************)
(* NexaVLMInference._chat, as far as the sampling parameters go            *)
(***************************************************************************)
SamplingParams(s) ==
    [k \in ParamKeys |-> heap[sessions[s].params][k]]

ChatOnSession(s) ==
    /\ proc = "running"
    /\ sessions[s] # None
    /\ sessions[s].model = "Llama"
    /\ chat_log' = [kind |-> "call", s |-> s, params |-> SamplingParams(s)]
    /\ UNCHANGED <<procVars, fs, heap, sessions, built, init_log>>

InitProc == proc = "running" /\ exit_status = "-"

\* the streams and the spinner before anything has used them
InitStreams ==
    /\ sys_stdout = TtyOut
    /\ sys_stderr = TtyErr
    /\ null_closed = {}
    /\ next_file = 1
    /\ scopes = <<>>
    /\ fg_pc = "idle"
    /\ exc = FALSE
    /\ calls = 0
    /\ stop_spinning = FALSE
    /\ sp_pc = "none"
    /\ sp_stream = None
    /\ fg_write = None
    /\ spin_write = None
    /\ restored = None

InitObjects ==
    /\ heap = [d \in {DEFAULT_TEXT_GEN_PARAMS} |-> DocumentedDefaults]
    /\ sessions = [s \in SessionIds |-> None]
    /\ built = [s \in SessionIds |-> None]
    /\ init_log = None
    /\ chat_log = None

\* run() has not been called
InitRun ==
    /\ run_pc = "start"
    /\ image_path = NoString
    /\ user_input = NoString
    /\ chunk_no = 0
    /\ turn = FreshTurn
    /\ last_key = None
    /\ engine_msg = <<>>
    /\ direct_chat = None

\* ---- one construction, over every reference and every disk ----
InitResolve == InitProc /\ InitObjects /\ InitStreams /\ InitRun /\ fs \in Disks

\* with and without the browser UI, which skips the load
LaunchKwargs == {kw \in Kwargs : DOMAIN kw \subseteq {"streamlit"}}

NextResolve ==
    /\ UNCHANGED <<loadVars, runVars>>
    /\ proc = "running"
    /\ \/ /\ sessions["s1"] = None
          /\ \E model_path \in Refs, kwargs \in LaunchKwargs,
                pull_ok_m \in BOOLEAN, pull_ok_p \in BOOLEAN, load_ok \in BOOLEAN :
                NexaVLMInference_init("s1", model_path, kwargs, pull_ok_m, pull_ok_p, load_ok)
       \/ ChatOnSession("s1")

SpecResolve == InitResolve /\ [][NextResolve]_vars

\* ---- several sessions in one process, on a disk that holds every file ----
SessionRefs == {<<"nanollava">>, <<"v1", "/", "v1">>}

InitSessions == InitProc /\ InitObjects /\ InitStreams /\ InitRun /\ fs = FSUniverse

NextSessions ==
    /\ UNCHANGED <<loadVars, runVars>>
    /\ proc = "running"
    /\ \/ \E s \in SessionIds, model_path \in SessionRefs, kwargs \in Kwargs,
             pull_ok_m \in BOOLEAN, pull_ok_p \in BOOLEAN, load_ok \in BOOLEAN :
             NexaVLMInference_init(s, model_path, kwargs, pull_ok_m, pull_ok_p, load_ok)
       \/ \E s \in SessionIds : ChatOnSession(s)

SpecSessions == InitSessions /\ [][NextSessions]_vars

(***************************************************************************)
(* Properties of session construction                                      *)
(***************************************************************************)
\* the part of a name after its last ":", the whole name when it holds none
AfterLastColon(name) ==
    LET colons == {i \in 1..Len(name) : name[i] = ":"}
        last == IF colons = {} THEN 0 ELSE CHOOSE i \in colons : \A j \in colons : j <= i
    IN  SubSeq(name, last + 1, Len(name))

ExpectedLocalModel(ref) ==
    PathJoin(PathParent(Path(ref)), <<"model-">> \o AfterLastColon(PathName(Path(ref))))

ExpectedLocalProjector(ref) ==
    PathJoin(PathParent(Path(ref)), <<"projector-">> \o AfterLastColon(PathName(Path(ref))))

\* C1: model resolution follows a fixed precedence for every reference and every
\* disk: a hub key resolves to the two pulled artifacts of the tables, whatever
\* local files exist; any other reference whose parent directory exists resolves
\* to <parent>/model-<tag> and <parent>/projector-<tag>, and construction goes on
\* only when both exist; in every other case the process exits with a non-zero
\* status and the engine is never loaded
ResolutionPrecedence ==
    init_log # None =>
        LET ref == init_log.model_path
            parent_ok == PathExists(PathParent(Path(ref)), fs)
            both == /\ PathExists(ExpectedLocalModel(ref), fs)
                    /\ PathExists(ExpectedLocalProjector(ref), fs)
        IN  /\ ref \in HubKeys =>
                /\ init_log.downloaded_path =
                     pull_model(NEXA_RUN_MODEL_MAP_VLM[ref], init_log.pull_ok_m)
                /\ init_log.projector_downloaded_path =
                     pull_model(NEXA_RUN_PROJECTOR_MAP[ref], init_log.pull_ok_p)
            /\ (ref \notin HubKeys /\ parent_ok) =>
                /\ init_log.downloaded_path = ExpectedLocalModel(ref)
                /\ init_log.projector_downloaded_path = ExpectedLocalProjector(ref)
                /\ both => init_log.outcome # "exit"
            /\ (ref \notin HubKeys /\ ~(parent_ok /\ both)) =>
                /\ proc = "exited"
                /\ exit_status \notin {"0", "-"}
                /\ ~init_log.load_called
                /\ sessions[init_log.s] = None

\* a hub key that is also the tag of a complete local pair resolved to the pulled
\* paths, and the session was constructed
HubKeyWinsOverLocalPair ==
    /\ init_log # None
    /\ init_log.model_path \in HubKeys
    /\ PathExists(ExpectedLocalModel(init_log.model_path), fs)
    /\ PathExists(ExpectedLocalProjector(init_log.model_path), fs)
    /\ init_log.outcome = "constructed"
    /\ sessions[init_log.s] # None
    /\ sessions[init_log.s].downloaded_path =
          PulledPath(NEXA_RUN_MODEL_MAP_VLM[init_log.model_path])

\* C10: the generation parameters of a constructed session never change, and
\* constructing a session leaves the shared default table unchanged
ParamsFixedAndDefaultsKept ==
    /\ \A s \in SessionIds : sessions[s] # None => SamplingParams(s) = built[s]
    /\ proc = "running" =>
          [k \in ParamKeys |-> heap[DEFAULT_TEXT_GEN_PARAMS][k]] = DocumentedDefaults

(***************************************************************************)
(* A decorated callable whose body uses suppression scopes, with the       *)
(* spinner thread running beside it                                        *)
(***************************************************************************)
InitLoad == InitProc /\ InitObjects /\ InitStreams /\ InitRun /\ fs = {}

NextLoad ==
    /\ UNCHANGED <<procVars, initVars, runVars>>
    /\ \/ WrapperCall
       \/ SuppressEnterOpen
       \/ SuppressEnterRedirect
       \/ \E which \in {"stdout", "stderr"} : BlockWrite(which)
       \/ \E raises \in BOOLEAN : BlockEnd(raises)
       \/ SuppressExitRedirect
       \/ SuppressExitRestore
       \/ SuppressExitClose
       \/ SpinExitSet
       \/ SpinExitJoin
       \/ SpinExitWrite
       \/ SpinTest
       \/ SpinLoad
       \/ SpinWrite
       \/ SpinFlush
       \/ SpinSleep

SpecLoad == InitLoad /\ [][NextLoad]_vars

\* the spinner thread is scheduled, and a join whose thread has ended returns
FairSpecLoad ==
    SpecLoad /\ WF_vars(SpinnerStep /\ UNCHANGED <<procVars, initVars, runVars>>)
             /\ WF_vars(SpinExitJoin /\ UNCHANGED <<procVars, initVars, runVars>>)

(***************************************************************************)
(* Properties of the suppression scope and the spinner                     *)
(***************************************************************************)
RealStream(which) == IF which = "stdout" THEN TtyOut ELSE TtyErr

\* C2: for every use of suppress_stdout_stderr, nested uses included, nothing an
\* enclosed block writes to sys.stdout or sys.stderr reaches a real stream while
\* a scope is active; when a scope exits, normally or by an exception, sys.stdout
\* and sys.stderr are the streams that were current at its entry, and writes made
\* with no scope active reach the real streams
SuppressionScopedAndRestored ==
    /\ fg_write # None =>
          /\ fg_write.depth > 0 => fg_write.dest.kind # "tty"
          /\ fg_write.depth = 0 => fg_write.dest = RealStream(fg_write.which)
    /\ restored # None =>
          /\ restored.out = restored.entry_out
          /\ restored.err = restored.entry_err

\* an inner scope, entered while an outer one was active, was left by an
\* exception after its block had written
NestedScopeLeftByException ==
    /\ restored # None
    /\ restored.raised
    /\ restored.entry_out.kind = "devnull"
    /\ fg_write # None
    /\ fg_write.depth = MaxDepth

\* C3: for every call of the decorated callable and every interleaving, the stop
\* flag is set and the spinner thread has ended when control is back with the
\* caller, by a return or by an exception, and the join always completes
SpinnerEndsBeforeReturn ==
    /\ [](fg_pc \in {"exit_write", "returned", "raised"} =>
             stop_spinning /\ ~SpinnerAlive)
    /\ (fg_pc = "join" ~> fg_pc = "exit_write")

\* the first call raised, after the spinner thread had written a frame
RaisedAfterSpinning ==
    /\ fg_pc = "raised"
    /\ calls = 1
    /\ spin_write # None

\* C9: every write of the spinner thread goes to the real terminal stream, never
\* to a discard file, open or closed
SpinnerWritesReachTerminal ==
    spin_write # None => spin_write.dest = TtyOut /\ ~spin_write.closed

(***************************************************************************)
(* The interactive loop, and _chat called directly                         *)
(***************************************************************************)
ImageDisks == {{}, {Path(<<"p">>)}}

InitLoop == InitProc /\ InitObjects /\ InitStreams /\ InitRun /\ fs \in ImageDisks

\* each input is drawn once the operation it goes to is due
NextLoop ==
    /\ UNCHANGED <<initVars, loadVars>>
    /\ proc = "running"
    /\ \/ RunStart
       \/ /\ run_pc = "start" /\ direct_chat = None
          /\ \E text \in Inputs \cup {NoString}, image \in Inputs \cup {NoString} :
                DirectChat(text, image)
       \/ DirectChatDone
       \/ run_pc = "image_prompt" /\ \E key \in Keys : PromptImage(key)
       \/ run_pc = "text_prompt" /\ \E key \in Keys : PromptText(key)
       \/ \E outcome \in {"ok", "Exception", "KeyboardInterrupt"} : Chat(outcome)
       \/ \E outcome \in {"role", "content", "other", "end", "Exception",
                          "KeyboardInterrupt"} : Render(outcome)
       \/ TurnEnd

SpecLoop == InitLoop /\ [][NextLoop]_vars

(***************************************************************************)
(* Properties of the interactive loop and of _chat                         *)
(***************************************************************************)
BothAbsent(text, image) == ~Truthy(text) /\ ~Truthy(image)

\* the loop rejects a turn with empty text and no image path without an engine
\* call and goes on to the next iteration
EmptyTurnRejectedByLoop ==
    (turn.answered /\ BothAbsent(user_input, image_path)) =>
        /\ turn.rejected
        /\ ~turn.engine_called
        /\ run_pc = "image_prompt"
        /\ proc = "running"

\* C4 as stated: _chat called with both text and image absent raises an
\* empty-input error before any engine call, and the loop rejects an empty turn
\* without an engine call and goes on
EmptyChatRaisesBeforeEngine ==
    /\ (direct_chat # None /\ BothAbsent(direct_chat.text, direct_chat.image)) =>
          /\ direct_chat.raised = "EmptyInputError"
          /\ ~direct_chat.engine_called
    /\ EmptyTurnRejectedByLoop

\* C4 as amended: _chat called with both text and image absent raises nothing and
\* sends a user message of one text part to the engine; the loop rejects an empty
\* turn without an engine call and goes on to the next iteration
EmptyInputRejectedByLoopOnly ==
    /\ (direct_chat # None /\ BothAbsent(direct_chat.text, direct_chat.image)) =>
          /\ direct_chat.raised = "none"
          /\ direct_chat.engine_called
          /\ direct_chat.content = <<TextPart(direct_chat.text)>>
    /\ EmptyTurnRejectedByLoop

\* _chat was called with neither text nor image and went on to the engine
EmptyDirectChatReachedEngine ==
    /\ direct_chat # None
    /\ direct_chat.text = NoString
    /\ direct_chat.image = NoString
    /\ direct_chat.engine_called
    /\ direct_chat.raised = "none"

\* C5: a turn whose image path does not exist is handled as the text-only turn
\* with the same text: the user message holds the text part only, and the turn
\* is rejected without an engine call exactly when the text is empty
MissingImageIsTextOnly ==
    (turn.answered /\ Truthy(image_path) /\ ~OsPathExists(image_path, fs)) =>
        /\ turn.rejected <=> ~Truthy(user_input)
        /\ turn.rejected => ~turn.engine_called
        /\ turn.engine_called => engine_msg = <<TextPart(user_input)>>

\* C6: an interrupt at any point of a turn aborts that turn only: the process
\* goes on, no engine call is started in the turn after it, and the loop is at
\* the end of the turn or at the first prompt of the next one
InterruptAbortsTurn ==
    turn.interrupted =>
        /\ proc = "running"
        /\ ~turn.called_after_interrupt
        /\ run_pc \in {"turn_end", "image_prompt"}

\* C7: the loop never exits because of a generation error: an exception of the
\* engine call or of the fragment stream is logged and ends the turn, the end of
\* a turn leads to the image prompt of a new one, and the process ends only by
\* an exit command
GenerationErrorKeepsLoop ==
    /\ [](turn.gen_error =>
             proc = "running" /\ run_pc = "turn_end" /\ turn.error_logged)
    /\ [](proc = "exited" =>
             /\ turn.exit_cause = "SystemExit"
             /\ last_key.kind = "typed"
             /\ Lower(Strip(last_key.raw)) \in EXIT_COMMANDS)
    /\ [][run_pc = "turn_end" => run_pc' = "image_prompt"]_vars

\* the stream raised after a fragment had been rendered
StreamRaisedMidway ==
    /\ turn.gen_error
    /\ chunk_no > 0
    /\ run_pc = "turn_end"

\* C8: an exit command typed in any letter case at either prompt ends the process
\* with status 0, with no engine call in that turn
ExitCommandExits ==
    (last_key.kind = "typed" /\ Lower(last_key.raw) \in EXIT_COMMANDS) =>
        /\ proc = "exited"
        /\ exit_status = "0"
        /\ ~turn.engine_called

\* "Exit" typed at the text prompt of a turn that has an image path
CapitalExitAtTextPrompt ==
    /\ last_key.kind = "typed"
    /\ last_key.at = "text"
    /\ last_key.raw = <<"Exit">>
    /\ Truthy(image_path)
    /\ proc = "exited"
    /\ exit_status = "0"

====
